---- MODULE Spec2Model ----
(***************************************************************************)
(* bandsaw: trim(list, padding) auto-crops PNG files to the bounding box   *)
(* of their non-transparent pixels, rewrites each file in place and        *)
(* returns one record of crop geometry per file (src/index.js).            *)
(*                                                                         *)
(* A PNG file is modelled by the two things the code reads from it: the    *)
(* eight IHDR bytes at offset 16 (width and height, big-endian) and the    *)
(* alpha sample of every pixel in row-major order.  The colour samples are *)
(* never inspected by the code and are left out.  The name and fullName    *)
(* fields of the result (string splitting of the path) are left out too.   *)
(* Every path of the model ends in .png and names a file, not a folder.    *)
(***************************************************************************)
EXTENDS Integers, Sequences, FiniteSets, TLC

\* ---------------------------------------------------------------- bounds
MaxW == 3
MaxH == 3
MaxPixels == 9
MaxPad == 3
MaxItems == 2
MaxRuns == 2

Paths == {"A.png", "B.png"}
Alphas == {0, 128}

\* ------------------------------------------------------------ JS values
\* null is a value distinct from every number; a number n is <<n>>.
Null == <<>>
Some(n) == <<n>>
\* ToNumber as applied by the binary - and + operators: null coerces to 0.
ToNumber(v) == IF v = Null THEN 0 ELSE v[1]

\* ------------------------------------------------------------ PNG bytes
NoFile == [ihdr |-> <<>>, pixels |-> <<>>]

\* Big-endian 32-bit encoding of a dimension, as the PNG encoder writes it.
ToBytes(n) == << (n \div 16777216) % 256, (n \div 65536) % 256, (n \div 256) % 256, n % 256 >>

\* DataView.getInt32(off): signed big-endian read of four bytes.
getInt32(b, off) ==
  LET hi == IF b[off + 1] >= 128 THEN b[off + 1] - 256 ELSE b[off + 1]
  IN  hi * 16777216 + b[off + 2] * 65536 + b[off + 3] * 256 + b[off + 4]

getPngDimensions(file) ==
  [width |-> getInt32(file.ihdr, 0), height |-> getInt32(file.ihdr, 4)]

\* canvas.toDataURL() followed by the base64 Buffer: the bytes written.
toDataURL(img) ==
  [ihdr |-> ToBytes(img.width) \o ToBytes(img.height), pixels |-> img.data]

\* The canvas after drawImage: sized from the header, painted with the file.
drawImage(file) ==
  LET dims == getPngDimensions(file)
  IN  [width |-> dims.width, height |-> dims.height, data |-> file.pixels]

\* context.getImageData(sx, sy, sw, sh): pixels outside the canvas read as
\* transparent black.
getImageData(canvas, sx, sy, sw, sh) ==
  [width |-> sw, height |-> sh,
   data |-> [k \in 1..(sw * sh) |->
               LET x == sx + ((k - 1) % sw)
                   y == sy + ((k - 1) \div sw)
               IN  IF x < canvas.width /\ y < canvas.height
                     THEN canvas.data[y * canvas.width + x + 1]
                     ELSE 0]]

\* ------------------------------------------------------- isBetween/clamp
\* min and max are always numbers here (0 and a canvas dimension), so the
\* falsy-argument guards of isBetween do not apply.
isBetween(value, min, max) == value >= min /\ value <= max

\* clamp without its upper branch.
clamp_NoMax(value, min, max) ==
  IF value < min THEN min ELSE value

clamp(value, min, max) ==
  IF isBetween(value, min, max) THEN value
  ELSE IF value < min THEN min
  ELSE max

\* ------------------------------------------------------------ trimCanvas
NullBound == [top |-> Null, left |-> Null, right |-> Null, bottom |-> Null]

\* The scan step with left taken from the first pixel found, as top is.
scanStep_FirstLeft(canvas, k, bound) ==
  IF canvas.data[k + 1] # 0
    THEN LET x == k % canvas.width
             y == k \div canvas.width
         IN  [top    |-> IF bound.top = Null THEN Some(y) ELSE bound.top,
              left   |-> IF bound.left = Null THEN Some(x) ELSE bound.left,
              right  |-> IF bound.right = Null \/ ToNumber(bound.right) < x
                           THEN Some(x) ELSE bound.right,
              bottom |-> IF bound.bottom = Null \/ ToNumber(bound.bottom) < y
                           THEN Some(y) ELSE bound.bottom]
    ELSE bound

\* One iteration of the scan loop for pixel k (k = i / 4).
scanStep(canvas, k, bound) ==
  IF canvas.data[k + 1] # 0
    THEN LET x == k % canvas.width
             y == k \div canvas.width
         IN  [top    |-> IF bound.top = Null THEN Some(y) ELSE bound.top,
              left   |-> IF bound.left = Null \/ x < ToNumber(bound.left)
                           THEN Some(x) ELSE bound.left,
              right  |-> IF bound.right = Null \/ ToNumber(bound.right) < x
                           THEN Some(x) ELSE bound.right,
              bottom |-> IF bound.bottom = Null \/ ToNumber(bound.bottom) < y
                           THEN Some(y) ELSE bound.bottom]
    ELSE bound

RECURSIVE scanLoop(_, _, _)
scanLoop(canvas, k, bound) ==
  IF k >= Len(canvas.data) THEN bound
  ELSE scanLoop(canvas, k + 1, scanStep(canvas, k, bound))

scanBounds(canvas) == scanLoop(canvas, 0, NullBound)

\* "Attempt to add padding to all sides"
addPadding(bound, pad) ==
  [top    |-> ToNumber(bound.top) - pad,
   left   |-> ToNumber(bound.left) - pad,
   right  |-> ToNumber(bound.right) + pad,
   bottom |-> ToNumber(bound.bottom) + pad]

\* "Ensure that the padding never exceeds width/height parameters or is below 0"
clampBound(bound, canvas) ==
  [top    |-> clamp(bound.top, 0, canvas.height),
   left   |-> clamp(bound.left, 0, canvas.width),
   right  |-> clamp(bound.right, 0, canvas.width),
   bottom |-> clamp(bound.bottom, 0, canvas.height)]

\* The result record with right and bottom left as pixel coordinates.
CropResult_RawEdges(filepath, bound, canvas) ==
  [path            |-> filepath,
   left            |-> bound.left,
   top             |-> bound.top,
   right           |-> bound.right,
   bottom          |-> bound.bottom,
   width           |-> bound.right - bound.left,
   height          |-> bound.bottom - bound.top,
   naturalWidth    |-> canvas.width,
   naturalHeight   |-> canvas.height,
   geometricBounds |-> <<bound.left, bound.top, bound.right, bound.bottom>>]

\* The record trimCanvas returns.
CropResult(filepath, bound, canvas) ==
  [path            |-> filepath,
   left            |-> bound.left,
   top             |-> bound.top,
   right           |-> canvas.width - bound.right,
   bottom          |-> canvas.height - bound.bottom,
   width           |-> bound.right - bound.left,
   height          |-> bound.bottom - bound.top,
   naturalWidth    |-> canvas.width,
   naturalHeight   |-> canvas.height,
   geometricBounds |-> <<bound.left, bound.top, bound.right, bound.bottom>>]

NoResult == CropResult("", [top |-> 0, left |-> 0, right |-> 0, bottom |-> 0],
                       [width |-> 0, height |-> 0])

\* trimCanvas up to the write: the scanned bound, the padded and clamped
\* bound, whether getImageData throws IndexSizeError (a zero width or
\* height), the bytes to write and the record to return.
trimCanvas(canvas, filepath, pad) ==
  LET scan       == scanBounds(canvas)
      bound      == clampBound(addPadding(scan, pad), canvas)
      trimHeight == bound.bottom - bound.top
      trimWidth  == bound.right - bound.left
      threw      == trimWidth = 0 \/ trimHeight = 0
  IN  [scan   |-> scan,
       bound  |-> bound,
       threw  |-> threw,
       bytes  |-> IF threw THEN NoFile
                  ELSE toDataURL(getImageData(canvas, bound.left, bound.top,
                                              trimWidth, trimHeight)),
       result |-> CropResult(filepath, bound, canvas)]

\* ------------------------------------------------------------- Promise.all
\* Aggregation in completion order instead of input order.
PromiseAll_ByCompletion(values, order) == [k \in 1..Len(order) |-> values[order[k]]]

\* The array Promise.all fulfils with: the fulfilment value of the i-th
\* promise at position i, whatever the order in which they were fulfilled.
PromiseAll(values, order) == [i \in 1..Len(order) |-> values[i]]

\* ------------------------------------------------------------------ state
VARIABLES
  files,      \* the filesystem: path -> PNG bytes, or NoFile
  input,      \* the list argument of trim
  padding,    \* the padding argument of trim
  list,       \* trim's list after the exists filter
  loaded,     \* per item: the bytes encodeAsBase64 read when trimItem ran
  status,     \* per item: the state of trimItem's promise and of its image
  value,      \* per item: the value its promise was resolved with
  scanned,    \* per item: trimCanvas's bound after the scan loop
  box,        \* per item: trimCanvas's bound after padding and clamping
  completed,  \* the items in the order their onload callbacks resolved
  trimState,  \* the state of the promise trim returned
  returned,   \* the value trim's promise was fulfilled with
  runs,       \* number of calls of trim so far
  history     \* per call of trim: the bytes read for each item

vars == <<files, input, padding, list, loaded, status, value, scanned, box,
          completed, trimState, returned, runs, history>>

exists(targetPath) == files[targetPath] # NoFile

\* All canvases of at most w by h and at most n pixels.
Canvases(w, h, n) ==
  UNION { { [width |-> dim[1], height |-> dim[2], data |-> d] :
              d \in [1..(dim[1] * dim[2]) -> Alphas] } :
          dim \in { e \in (1..w) \X (1..h) : e[1] * e[2] <= n } }

SeqsUpTo(S, n) == UNION { [1..m -> S] : m \in 0..n }

Idle ==
  /\ list = <<>> /\ loaded = <<>> /\ status = <<>> /\ value = <<>>
  /\ scanned = <<>> /\ box = <<>> /\ completed = <<>>
  /\ trimState = "idle" /\ returned = <<>> /\ runs = 0 /\ history = <<>>

\* The files of a batch: the two 1 by 1 images and the opaque 2 by 2 image.
BatchCanvases ==
  Canvases(1, 1, 1) \cup {[width |-> 2, height |-> 2, data |-> <<128, 128, 128, 128>>]}

\* A batch: small files, some paths missing, any list of paths.
Init ==
  /\ files \in [Paths -> {toDataURL(c) : c \in BatchCanvases} \cup {NoFile}]
  /\ input \in SeqsUpTo(Paths, MaxItems)
  /\ padding \in 0..MaxPad
  /\ Idle

\* One file of any content up to MaxW by MaxH and MaxPixels pixels.
InitCanvas ==
  /\ \E c \in Canvases(MaxW, MaxH, MaxPixels) :
       files = [p \in Paths |-> IF p = "A.png" THEN toDataURL(c) ELSE NoFile]
  /\ input = <<"A.png">>
  /\ padding \in 0..MaxPad
  /\ Idle

\* ---------------------------------------------------------------- actions
\* A call of trim, up to its await of Promise.all: the exists filter, then
\* trimItem's executor for every item.  readFileSync throws for the items of
\* unreadable, which rejects their promises; the rejection settles trim's
\* promise before any onload callback runs.  The caller awaits each call and
\* calls again only after the previous call fulfilled, so the pipelines of
\* two calls never overlap.
Trim(unreadable) ==
  /\ runs < MaxRuns
  /\ trimState \in {"idle", "fulfilled"}
  /\ LET l == SelectSeq(input, exists)
         n == Len(l)
     IN  /\ unreadable \subseteq 1..n
         /\ list' = l
         /\ loaded' = [i \in 1..n |-> IF i \in unreadable THEN NoFile ELSE files[l[i]]]
         /\ status' = [i \in 1..n |-> IF i \in unreadable THEN "rejected" ELSE "pending"]
         /\ value' = [i \in 1..n |-> NoResult]
         /\ scanned' = [i \in 1..n |-> NullBound]
         /\ box' = [i \in 1..n |-> NullBound]
         /\ completed' = <<>>
         /\ trimState' = IF n = 0 THEN "fulfilled"
                         ELSE IF unreadable # {} THEN "rejected"
                         ELSE "pending"
         /\ returned' = <<>>
         /\ history' = Append(history, loaded')
  /\ runs' = runs + 1
  /\ UNCHANGED <<files, input, padding>>

\* img.onload of item i: drawImage, trimCanvas, resolve.  An exception in
\* trimCanvas (getImageData on a zero-area box, or writeFileSync failing)
\* is thrown out of the callback: the promise of item i is never settled.
\* When the last promise of the batch resolves, Promise.all fulfils.
OnLoad(i, writeFails) ==
  /\ i \in DOMAIN status
  /\ status[i] = "pending"
  /\ LET canvas == drawImage(loaded[i])
         t      == trimCanvas(canvas, list[i], padding)
     IN  /\ scanned' = [scanned EXCEPT ![i] = t.scan]
         /\ box' = [box EXCEPT ![i] = t.bound]
         /\ IF t.threw \/ writeFails
              THEN /\ status' = [status EXCEPT ![i] = "thrown"]
                   /\ UNCHANGED <<files, value, completed, trimState, returned>>
              ELSE /\ files' = [files EXCEPT ![list[i]] = t.bytes]
                   /\ status' = [status EXCEPT ![i] = "resolved"]
                   /\ value' = [value EXCEPT ![i] = t.result]
                   /\ completed' = Append(completed, i)
                   /\ IF trimState = "pending" /\ \A j \in DOMAIN status' : status'[j] = "resolved"
                        THEN /\ trimState' = "fulfilled"
                             /\ returned' = PromiseAll(value', completed')
                        ELSE UNCHANGED <<trimState, returned>>
  /\ UNCHANGED <<input, padding, list, loaded, runs, history>>

\* The image of item i fails to decode: no onerror handler is installed, so
\* onload never runs and the promise of item i is never settled.
ImgError(i) ==
  /\ i \in DOMAIN status
  /\ status[i] = "pending"
  /\ status' = [status EXCEPT ![i] = "noload"]
  /\ UNCHANGED <<files, input, padding, list, loaded, value, scanned, box,
                 completed, trimState, returned, runs, history>>

Next ==
  \/ \E u \in SUBSET (1..MaxItems) : Trim(u)
  \/ \E i \in 1..MaxItems, wf \in BOOLEAN : OnLoad(i, wf)
  \/ \E i \in 1..MaxItems : ImgError(i)

Spec == Init /\ [][Next]_vars

\* The pipeline of one readable, decodable, writable file, run repeatedly.
NextCanvas ==
  \/ Trim({})
  \/ OnLoad(1, FALSE)

SpecCanvas == InitCanvas /\ [][NextCanvas]_vars

\* ----------------------------------------------------- reference notions
\* The non-transparent pixels of a canvas, as 0-based pixel indices, and the
\* columns and rows they occupy.
OpaqueSet(c) == { k \in 0..(Len(c.data) - 1) : c.data[k + 1] # 0 }
OpaqueCols(c) == { k % c.width : k \in OpaqueSet(c) }
OpaqueRows(c) == { k \div c.width : k \in OpaqueSet(c) }
SetMin(S) == CHOOSE m \in S : \A n \in S : m <= n
SetMax(S) == CHOOSE m \in S : \A n \in S : m >= n

\* Item i has run trimCanvas (its scan, padding and clamp have happened).
Scanned(i) == i \in DOMAIN status /\ status[i] \in {"resolved", "thrown"}
CanvasOf(i) == drawImage(loaded[i])

\* The first call of trim has fulfilled / the second call has fulfilled.
FirstDone == runs = 1 /\ trimState = "fulfilled" /\ Len(returned) = 1
SecondDone == runs = 2 /\ trimState = "fulfilled" /\ Len(returned) = 1
\* The canvas the first call painted for its only item.
FirstCanvas == drawImage(history[1][1])

\* ---------------------------------------------------------------- claims
\* C1: when every path of the input exists and trim fulfils, it returns
\* exactly one result per input path, and the i-th result's path is the
\* i-th input path, whatever the order in which the onload callbacks ran.
C1_InputOrder ==
  (trimState = "fulfilled" /\ \A k \in DOMAIN input : exists(input[k]))
    => /\ Len(returned) = Len(input)
       /\ \A k \in DOMAIN input : returned[k].path = input[k]

\* C1 witness: two different files, the second one's onload ran first.
C1_Witness ==
  /\ trimState = "fulfilled"
  /\ Len(input) = 2 /\ input[1] # input[2]
  /\ completed = <<2, 1>>
  /\ Len(returned) = 2

\* C2 (as claimed): in a batch of two or more items of which one failed,
\* once no pipeline is left to run every item that resolved has its result
\* reported by trim.
C2_Isolation ==
  (/\ Len(list) >= 2
   /\ \A i \in DOMAIN status : status[i] # "pending"
   /\ \E j \in DOMAIN status : status[j] \in {"rejected", "thrown", "noload"})
    => \A i \in DOMAIN status :
         status[i] = "resolved"
           => trimState = "fulfilled" /\ Len(returned) >= i /\ returned[i] = value[i]

\* C3 (as claimed): when trim's promise has settled, fulfilled or rejected,
\* no pipeline of the batch is still to run.
C3_JoinBeforeSettle ==
  trimState \in {"fulfilled", "rejected"}
    => \A i \in DOMAIN status : status[i] # "pending"

\* C4 (as claimed): for a fully transparent image trim never hangs on an
\* exception thrown in the onload callback, and when it fulfils the file is
\* left as it was and the result has a positive area.
C4_TransparentDefined ==
  (runs = 1 /\ OpaqueSet(FirstCanvas) = {})
    => /\ \A i \in DOMAIN status : status[i] # "thrown"
       /\ trimState = "fulfilled"
            => /\ files["A.png"] = history[1][1]
               /\ returned[1].width > 0 /\ returned[1].height > 0

\* The non-transparent pixels of c are exactly the w by h rectangle at (x, y).
IsSolidRect(c, x, y, w, h) ==
  OpaqueSet(c) = { k \in 0..(Len(c.data) - 1) :
                     /\ k % c.width >= x /\ k % c.width < x + w
                     /\ k \div c.width >= y /\ k \div c.width < y + h }

\* C5 (as claimed): for a solid w by h rectangle at (x, y) and a padding p
\* that needs no clamping, trim returns left = x-p, top = y-p, width = w+2p,
\* height = h+2p, right = W-(x+w+p), bottom = H-(y+h+p) and
\* geometricBounds = [x-p, y-p, x+w+p, y+h+p].
C5_SolidRectangle ==
  FirstDone =>
    LET c == FirstCanvas
        p == padding
        r == returned[1]
    IN  \A x \in 0..(c.width - 1), y \in 0..(c.height - 1),
           w \in 1..c.width, h \in 1..c.height :
          (/\ IsSolidRect(c, x, y, w, h)
           /\ x - p >= 0 /\ y - p >= 0
           /\ x + w + p <= c.width /\ y + h + p <= c.height)
            => /\ r.left = x - p /\ r.top = y - p
               /\ r.width = w + 2 * p /\ r.height = h + 2 * p
               /\ r.right = c.width - (x + w + p)
               /\ r.bottom = c.height - (y + h + p)
               /\ r.geometricBounds = <<x - p, y - p, x + w + p, y + h + p>>

\* The bounding box of the non-transparent pixels of c is the whole canvas.
FullCanvas(c) ==
  /\ OpaqueSet(c) # {}
  /\ SetMin(OpaqueCols(c)) = 0 /\ SetMax(OpaqueCols(c)) = c.width - 1
  /\ SetMin(OpaqueRows(c)) = 0 /\ SetMax(OpaqueRows(c)) = c.height - 1

\* C6 (as claimed): with padding 0, an image whose opaque bounding box is
\* the whole canvas gives width = naturalWidth, height = naturalHeight and
\* left = top = right = bottom = 0.
C6_FullCanvasRoundTrip ==
  (FirstDone /\ padding = 0 /\ FullCanvas(FirstCanvas))
    => LET r == returned[1]
       IN  /\ r.width = r.naturalWidth /\ r.height = r.naturalHeight
           /\ r.left = 0 /\ r.top = 0 /\ r.right = 0 /\ r.bottom = 0

\* C7 (as claimed): for an image with a non-transparent pixel, a second trim
\* with the same padding on the file the first trim wrote returns
\* left = top = right = bottom = 0.
C7_Idempotent ==
  (SecondDone /\ OpaqueSet(FirstCanvas) # {})
    => LET r == returned[1]
       IN  r.left = 0 /\ r.top = 0 /\ r.right = 0 /\ r.bottom = 0

\* C8: for an image with a non-transparent pixel, the padded and clamped
\* box satisfies 0 <= left <= right <= width and 0 <= top <= bottom <=
\* height, and is the whole canvas when padding >= max(width, height).
C8_ClampedBox ==
  \A i \in DOMAIN status :
    (Scanned(i) /\ OpaqueSet(CanvasOf(i)) # {})
      => LET c == CanvasOf(i)
             b == box[i]
         IN  /\ 0 <= b.left /\ b.left <= b.right /\ b.right <= c.width
             /\ 0 <= b.top /\ b.top <= b.bottom /\ b.bottom <= c.height
             /\ (padding >= c.width /\ padding >= c.height)
                  => b = [top |-> 0, left |-> 0, right |-> c.width, bottom |-> c.height]

\* C8 witness: a padding of at least both dimensions was applied to an image
\* whose opaque box is smaller than the canvas, and the box came out full.
C8_Witness ==
  /\ Scanned(1)
  /\ OpaqueSet(CanvasOf(1)) # {}
  /\ ~FullCanvas(CanvasOf(1))
  /\ CanvasOf(1).width >= 2 /\ CanvasOf(1).height >= 2
  /\ padding >= CanvasOf(1).width /\ padding >= CanvasOf(1).height
  /\ box[1].right = CanvasOf(1).width /\ box[1].bottom = CanvasOf(1).height

\* C9: for an image with a pixel of alpha # 0, the bound after the scan has
\* top/bottom = the least/greatest row and left/right = the least/greatest
\* column holding such a pixel, with 0 <= left <= right < width and
\* 0 <= top <= bottom < height.
C9_ScanExtrema ==
  \A i \in DOMAIN status :
    (Scanned(i) /\ OpaqueSet(CanvasOf(i)) # {})
      => LET c == CanvasOf(i)
             s == scanned[i]
         IN  /\ s.top = Some(SetMin(OpaqueRows(c)))
             /\ s.bottom = Some(SetMax(OpaqueRows(c)))
             /\ s.left = Some(SetMin(OpaqueCols(c)))
             /\ s.right = Some(SetMax(OpaqueCols(c)))
             /\ 0 <= s.left[1] /\ s.left[1] <= s.right[1] /\ s.right[1] < c.width
             /\ 0 <= s.top[1] /\ s.top[1] <= s.bottom[1] /\ s.bottom[1] < c.height

\* C9 witness: a scanned image whose box is wider and taller than one pixel
\* and none of whose four corners is opaque: the extrema come from
\* different pixels.
C9_Witness ==
  /\ Scanned(1)
  /\ LET c == CanvasOf(1)
         s == scanned[1]
     IN  /\ OpaqueSet(c) # {}
         /\ s.left[1] < s.right[1] /\ s.top[1] < s.bottom[1]
         /\ \A x \in {s.left[1], s.right[1]}, y \in {s.top[1], s.bottom[1]} :
              c.data[y * c.width + x + 1] = 0

\* C10: a result returned for an image with a non-transparent pixel has
\* left + width + right = naturalWidth, top + height + bottom =
\* naturalHeight, all six of them >= 0, and geometricBounds =
\* [left, top, left + width, top + height].
C10_Geometry ==
  \A k \in DOMAIN returned :
    (trimState = "fulfilled" /\ OpaqueSet(CanvasOf(k)) # {})
      => LET r == returned[k]
         IN  /\ r.left + r.width + r.right = r.naturalWidth
             /\ r.top + r.height + r.bottom = r.naturalHeight
             /\ r.left >= 0 /\ r.top >= 0 /\ r.right >= 0 /\ r.bottom >= 0
             /\ r.width >= 0 /\ r.height >= 0
             /\ r.geometricBounds = <<r.left, r.top, r.left + r.width, r.top + r.height>>

\* C10 witness: a returned result with a positive margin on every side.
C10_Witness ==
  /\ FirstDone
  /\ OpaqueSet(FirstCanvas) # {}
  /\ returned[1].left > 0 /\ returned[1].top > 0
  /\ returned[1].right > 0 /\ returned[1].bottom > 0

====
